---- MODULE Spec2Model ----
(***************************************************************************)
(* LSB steganography codec of "Steganography/LSB Steganography.py".        *)
(*                                                                         *)
(* An image file is modelled by the list img.getdata() returns after       *)
(* img.convert('RGB'): a sequence of pixels <<r, g, b>>, every channel in  *)
(* 0..255.  A string is the sequence of the code points of its characters, *)
(* a bit string ('0'/'1' characters) a sequence over {0, 1}.               *)
(***************************************************************************)
EXTENDS Integers, Sequences, FiniteSets

VARIABLES
    input,          \* pixels of the image file at input_path (always exists)
    message,        \* the message argument of encode
    output,         \* the image file at output_path: [exists, pixels]
    encodeReturn,   \* "not_run", or the value encode_lsb returned
    encodePrinted,  \* what encode_lsb printed
    decodePath,     \* the image_path of the last decode_lsb ("none" before)
    decodeImage,    \* the image the last decode_lsb opened: [exists, pixels]
    decodeReturn    \* what the last decode_lsb returned

vars == <<input, message, output, encodeReturn, encodePrinted,
          decodePath, decodeImage, decodeReturn>>

-----------------------------------------------------------------------------
(* Bounds of the model. *)

MaxParts == 3       \* a message is made of at most this many fragments
MaxPixels == 59     \* an image has at most this many pixels

-----------------------------------------------------------------------------
(* Program constants. *)

\* "|||END|||"
Delimiter == <<124, 124, 124, 69, 78, 68, 124, 124, 124>>

\* the '08b' of format(ord(char), '08b') and the 8 of range(0, len, 8)
ByteWidth == 8

\* len(pixels) * 3: the channels r, g, b of a pixel
Channels == 3

-----------------------------------------------------------------------------
(* Strings. *)

RECURSIVE Concat(_)
\* ''.join(parts)
Concat(parts) ==
    IF parts = <<>> THEN <<>> ELSE Head(parts) \o Concat(Tail(parts))

\* s.endswith(d)
EndsWith(s, d) ==
    /\ Len(s) >= Len(d)
    /\ SubSeq(s, Len(s) - Len(d) + 1, Len(s)) = d

RECURSIVE Replace(_, _)
\* s.replace(d, ''): every non-overlapping occurrence of d, scanning from the
\* left, is removed
Replace(s, d) ==
    IF Len(s) < Len(d) THEN s
    ELSE IF SubSeq(s, 1, Len(d)) = d
         THEN Replace(SubSeq(s, Len(d) + 1, Len(s)), d)
         ELSE <<Head(s)>> \o Replace(Tail(s), d)

-----------------------------------------------------------------------------
(* Encoding. *)

RECURSIVE Bin(_)
\* the binary digits of n, most significant first, without padding
Bin(n) == IF n < 2 THEN <<n>> ELSE Bin(n \div 2) \o <<n % 2>>

RECURSIVE ZeroPad(_, _)
\* digits padded with zeros on the left up to the given width; never cut
ZeroPad(digits, width) ==
    IF Len(digits) >= width THEN digits ELSE ZeroPad(<<0>> \o digits, width)

\* a slip: format(ord(char), 'b'), the digits without the padding
Format08bNoPad(code) == Bin(code)

\* format(ord(char), '08b'): at least 8 digits, more when ord(char) > 255
Format08b(code) == ZeroPad(Bin(code), ByteWidth)

\* ''.join(format(ord(char), '08b') for char in message_with_delimiter)
BinaryMessage(text) ==
    Concat([k \in 1..Len(text) |-> Format08b(text[k])])

\* a slip: >= for >, refusing the message that fills the carrier exactly
TooLongInclusive(binary_message, pixels) ==
    Len(binary_message) >= Len(pixels) * Channels

\* len(binary_message) > len(pixels) * 3
TooLong(binary_message, pixels) ==
    Len(binary_message) > Len(pixels) * Channels

\* len(pixels) * 3 // 8, the number of the "Message too long" diagnostic
MaxCharacters(pixels) == (Len(pixels) * Channels) \div ByteWidth

\* a slip: the bit added to the channel without clearing its LSB first
SetLsbNoMask(c, bit) == c + bit

\* (c & 0xFE) | int(bit)
SetLsb(c, bit) == (c - (c % 2)) + bit

\* a slip: the channels written in the order blue, green, red
EncodePixelReversed(pixel, binary_message, binary_index) ==
    LET n   == Len(binary_message)
        wb  == binary_index < n
        b   == IF wb THEN SetLsb(pixel[3], binary_message[binary_index + 1])
                     ELSE pixel[3]
        i1  == IF wb THEN binary_index + 1 ELSE binary_index
        wg  == i1 < n
        g   == IF wg THEN SetLsb(pixel[2], binary_message[i1 + 1])
                     ELSE pixel[2]
        i2  == IF wg THEN i1 + 1 ELSE i1
        wr  == i2 < n
        r   == IF wr THEN SetLsb(pixel[1], binary_message[i2 + 1])
                     ELSE pixel[1]
        i3  == IF wr THEN i2 + 1 ELSE i2
    IN  [pixel |-> <<r, g, b>>, binary_index |-> i3]

\* one pass of the body of "for pixel in pixels": the pixel appended to
\* new_pixels and the binary_index after it
EncodePixel(pixel, binary_message, binary_index) ==
    LET n   == Len(binary_message)
        wr  == binary_index < n
        r   == IF wr THEN SetLsb(pixel[1], binary_message[binary_index + 1])
                     ELSE pixel[1]
        i1  == IF wr THEN binary_index + 1 ELSE binary_index
        wg  == i1 < n
        g   == IF wg THEN SetLsb(pixel[2], binary_message[i1 + 1])
                     ELSE pixel[2]
        i2  == IF wg THEN i1 + 1 ELSE i1
        wb  == i2 < n
        b   == IF wb THEN SetLsb(pixel[3], binary_message[i2 + 1])
                     ELSE pixel[3]
        i3  == IF wb THEN i2 + 1 ELSE i2
    IN  [pixel |-> <<r, g, b>>, binary_index |-> i3]

RECURSIVE EncodeLoop(_, _, _, _, _)
\* the loop "for pixel in pixels", from pixel number k on
EncodeLoop(pixels, binary_message, k, binary_index, new_pixels) ==
    IF k > Len(pixels) THEN new_pixels
    ELSE LET step == EncodePixel(pixels[k], binary_message, binary_index)
         IN  EncodeLoop(pixels, binary_message, k + 1, step.binary_index,
                        Append(new_pixels, step.pixel))

\* new_pixels after the loop
NewPixels(pixels, binary_message) ==
    EncodeLoop(pixels, binary_message, 1, 0, <<>>)

-----------------------------------------------------------------------------
(* Decoding. *)

\* the bit string built from str(r & 1), str(g & 1), str(b & 1) of each pixel
ExtractLsb(pixels) ==
    [i \in 1..(Len(pixels) * Channels) |->
        pixels[((i - 1) \div Channels) + 1][((i - 1) % Channels) + 1] % 2]

RECURSIVE IntBase2(_)
\* int(byte, 2)
IntBase2(byte) ==
    IF byte = <<>> THEN 0
    ELSE 2 * IntBase2(SubSeq(byte, 1, Len(byte) - 1)) + byte[Len(byte)]

NoneValue == [kind |-> "None", text |-> <<>>]
Text(s) == [kind |-> "str", text |-> s]

RECURSIVE DecodeLoopReturnsText(_, _, _)
\* a slip: the text decoded so far returned when the pixels are exhausted
DecodeLoopReturnsText(binary_message, i, decoded) ==
    IF i >= Len(binary_message) THEN Text(decoded)
    ELSE IF i + ByteWidth > Len(binary_message)
         THEN DecodeLoopReturnsText(binary_message, i + ByteWidth, decoded)
         ELSE LET byte == SubSeq(binary_message, i + 1, i + ByteWidth)
                  next == Append(decoded, IntBase2(byte))
              IN  IF EndsWith(next, Delimiter)
                  THEN Text(Replace(next, Delimiter))
                  ELSE DecodeLoopReturnsText(binary_message, i + ByteWidth,
                                             next)

RECURSIVE DecodeLoopLastMatch(_, _, _)
\* a slip: the scan goes on after a match and the last match decides
DecodeLoopLastMatch(binary_message, i, decoded) ==
    IF i >= Len(binary_message) THEN NoneValue
    ELSE IF i + ByteWidth > Len(binary_message)
         THEN DecodeLoopLastMatch(binary_message, i + ByteWidth, decoded)
         ELSE LET byte == SubSeq(binary_message, i + 1, i + ByteWidth)
                  next == Append(decoded, IntBase2(byte))
                  rest == DecodeLoopLastMatch(binary_message, i + ByteWidth,
                                              next)
              IN  IF EndsWith(next, Delimiter) /\ rest.kind # "str"
                  THEN Text(Replace(next, Delimiter))
                  ELSE rest

RECURSIVE DecodeLoop(_, _, _)
\* "for i in range(0, len(binary_message), 8)" from offset i on (0-based),
\* with the message decoded so far; the value decode_lsb returns
DecodeLoop(binary_message, i, decoded) ==
    IF i >= Len(binary_message) THEN NoneValue
    ELSE IF i + ByteWidth > Len(binary_message)
         THEN DecodeLoop(binary_message, i + ByteWidth, decoded)
         ELSE LET byte == SubSeq(binary_message, i + 1, i + ByteWidth)
                  next == Append(decoded, IntBase2(byte))
              IN  IF EndsWith(next, Delimiter)
                  THEN Text(Replace(next, Delimiter))
                  ELSE DecodeLoop(binary_message, i + ByteWidth, next)

\* the value decode_lsb returns for an image with these pixels
DecodePixels(pixels) == DecodeLoop(ExtractLsb(pixels), 0, <<>>)

-----------------------------------------------------------------------------
(* Inputs. *)

\* "HI", a character beyond one byte, the first six characters of the
\* delimiter ("|||END"), and the delimiter itself
Fragments ==
    {<<72, 73>>, <<256>>, SubSeq(Delimiter, 1, 6), Delimiter}

Messages ==
    {Concat(parts) : parts \in UNION {[1..n -> Fragments] : n \in 0..MaxParts}}

\* carriers: all channels 0, or channels counting up from 0
Fills == {"zero", "ramp"}

Carrier(fill, n) ==
    [k \in 1..n |->
        IF fill = "zero" THEN <<0, 0, 0>>
        ELSE <<(3 * k - 3) % 256, (3 * k - 2) % 256, (3 * k - 1) % 256>>]

Carriers == {Carrier(fill, n) : fill \in Fills, n \in 0..MaxPixels}

NoFile == [exists |-> FALSE, pixels |-> <<>>]
File(pixels) == [exists |-> TRUE, pixels |-> pixels]

NotRun == [kind |-> "not_run", text |-> <<>>]

-----------------------------------------------------------------------------
(* The program. *)

Init ==
    /\ input \in Carriers
    /\ message \in Messages
    /\ output = NoFile
    /\ encodeReturn = "not_run"
    /\ encodePrinted = [kind |-> "nothing"]
    /\ decodePath = "none"
    /\ decodeImage = NoFile
    /\ decodeReturn = NotRun

\* a slip: the image saved before the length check
encode_lsb_SaveFirst ==
    /\ encodeReturn = "not_run"
    /\ LET pixels == input
           message_with_delimiter == message \o Delimiter
           binary_message == BinaryMessage(message_with_delimiter)
       IN  /\ output' = File(NewPixels(pixels, binary_message))
           /\ IF TooLong(binary_message, pixels)
              THEN /\ encodePrinted' = [kind |-> "too_long",
                                        maximum |-> MaxCharacters(pixels)]
                   /\ encodeReturn' = "False"
              ELSE /\ encodePrinted' = [kind |-> "success",
                                        length |-> Len(message),
                                        bits |-> Len(binary_message)]
                   /\ encodeReturn' = "True"
    /\ UNCHANGED <<input, message, decodePath, decodeImage, decodeReturn>>

\* encode_lsb(input_path, message, output_path)
encode_lsb ==
    /\ encodeReturn = "not_run"
    /\ LET pixels == input
           message_with_delimiter == message \o Delimiter
           binary_message == BinaryMessage(message_with_delimiter)
       IN  IF TooLong(binary_message, pixels)
           THEN /\ encodePrinted' = [kind |-> "too_long",
                                     maximum |-> MaxCharacters(pixels)]
                /\ encodeReturn' = "False"
                /\ UNCHANGED output
           ELSE /\ output' = File(NewPixels(pixels, binary_message))
                /\ encodePrinted' = [kind |-> "success",
                                     length |-> Len(message),
                                     bits |-> Len(binary_message)]
                /\ encodeReturn' = "True"
    /\ UNCHANGED <<input, message, decodePath, decodeImage, decodeReturn>>

\* decode_lsb(image_path) of a file that exists
DecodeFile(path, pixels) ==
    /\ decodePath' = path
    /\ decodeImage' = File(pixels)
    /\ decodeReturn' = DecodePixels(pixels)
    /\ UNCHANGED <<input, message, output, encodeReturn, encodePrinted>>

\* decode_lsb(input_path): the carrier as it was before any encode
decode_input == DecodeFile("input", input)

\* decode_lsb(output_path): the stego image, or FileNotFoundError
decode_output ==
    IF output.exists
    THEN DecodeFile("output", output.pixels)
    ELSE /\ decodePath' = "output"
         /\ decodeImage' = NoFile
         /\ decodeReturn' = NoneValue
         /\ UNCHANGED <<input, message, output, encodeReturn, encodePrinted>>

Next == encode_lsb \/ decode_input \/ decode_output

Spec == Init /\ [][Next]_vars

-----------------------------------------------------------------------------
(* Vocabulary of the properties, defined by arithmetic on code points and  *)
(* channel values rather than by the operators of the codec.               *)

\* every character fits one byte
SingleByte(text) == \A k \in 1..Len(text) : text[k] \in 0..255

\* bit j (0 = most significant) of the 8-bit unit of a code point
BitOf(code, j) == (code \div (2 ^ (7 - j))) % 2

\* bit i (0-based) of the Bitstream of a text of single-byte characters
StreamBit(text, i) == BitOf(text[(i \div 8) + 1], i % 8)

\* the channel at flat position i (0-based): channel i mod 3 of pixel i div 3
ChannelAt(pixels, i) == pixels[(i \div 3) + 1][(i % 3) + 1]

\* the number of whole 8-bit units in the LSB stream of the pixels
UnitCount(pixels) == (3 * Len(pixels)) \div 8

\* the character the j-th 8-bit unit (1-based) of the LSB stream stands for
UnitAt(pixels, j) ==
    LET b(n) == ChannelAt(pixels, 8 * (j - 1) + n) % 2
    IN  128 * b(0) + 64 * b(1) + 32 * b(2) + 16 * b(3)
          + 8 * b(4) + 4 * b(5) + 2 * b(6) + b(7)

\* the first j units of the LSB stream end with the Delimiter
DelimiterEndsAt(pixels, j) ==
    /\ j >= 9
    /\ \A d \in 1..9 : UnitAt(pixels, j - 9 + d) = Delimiter[d]

\* the positions at which an aligned prefix of the LSB stream ends with it
MatchPositions(pixels) ==
    {j \in 1..UnitCount(pixels) : DelimiterEndsAt(pixels, j)}

\* the text occurs in s at 1-based position p
OccursAt(s, d, p) == SubSeq(s, p, p + Len(d) - 1) = d

\* d is a substring of s
Contains(s, d) == \E p \in 1..(Len(s) - Len(d) + 1) : OccursAt(s, d, p)

\* the last decode_lsb read the stego image the encode wrote
DecodedOutput ==
    /\ encodeReturn = "True"
    /\ decodePath = "output"
    /\ decodeImage = output

-----------------------------------------------------------------------------
(* C1: round trip.  For a message of single-byte characters that does not  *)
(* contain the Delimiter and fits the carrier (8 * (len(M) + 9) <=         *)
(* 3 * len(P)), decoding the encoded pixels returns exactly the message.   *)
RoundTrip ==
    ( /\ SingleByte(message)
      /\ ~Contains(message, Delimiter)
      /\ 8 * (Len(message) + 9) <= 3 * Len(input)
      /\ DecodedOutput )
    => decodeReturn = Text(message)

(* C2: capacity boundary.  A message of single-byte characters is encoded  *)
(* when 8 * (len(M) + 9) <= 3 * len(P), equality included, and is refused  *)
(* as too long, with no output written, when 8 * (len(M) + 9) is greater.  *)
CapacityBoundary ==
    (encodeReturn # "not_run" /\ SingleByte(message)) =>
        IF 8 * (Len(message) + 9) <= 3 * Len(input)
        THEN /\ encodeReturn = "True"
             /\ encodePrinted.kind = "success"
             /\ output.exists
        ELSE /\ encodeReturn = "False"
             /\ encodePrinted.kind = "too_long"
             /\ ~output.exists

\* an encode that succeeded with the Bitstream filling every channel
CapacityBoundaryWitness ==
    /\ encodeReturn = "True"
    /\ SingleByte(message)
    /\ input # <<>>
    /\ 8 * (Len(message) + 9) = 3 * Len(input)

(* C3: high-bit preservation.  After a successful encode every channel of  *)
(* every output pixel has the seven higher-order bits of the input channel *)
(* (c & 0xFE is 2 * (c div 2)), so it differs from it by at most 1.        *)
HighBitsPreserved ==
    output.exists =>
        /\ Len(output.pixels) = Len(input)
        /\ \A k \in 1..Len(input) : \A c \in 1..3 :
              /\ output.pixels[k][c] \div 2 = input[k][c] \div 2
              /\ output.pixels[k][c] - input[k][c] \in {-1, 0, 1}

\* an encode that cleared and one that set the LSB of a channel above 1
HighBitsPreservedWitness ==
    /\ output.exists
    /\ \E k \in 1..Len(input) : \E c \in 1..3 :
          input[k][c] > 1 /\ output.pixels[k][c] = input[k][c] - 1
    /\ \E k \in 1..Len(input) : \E c \in 1..3 :
          input[k][c] > 1 /\ output.pixels[k][c] = input[k][c] + 1

(* C4: no-message detection.  When no 8-bit-aligned prefix of the LSB      *)
(* stream of the decoded pixels (R, G, B per pixel, in order) ends with    *)
(* the Delimiter, decode returns None; so for all-zero LSBs and for the    *)
(* empty sequence.                                                         *)
NoMessageDetection ==
    ( /\ decodePath # "none"
      /\ decodeImage.exists
      /\ MatchPositions(decodeImage.pixels) = {} )
    => decodeReturn = NoneValue

\* a decode of a non-empty image whose LSBs are all zero returned None
NoMessageDetectionWitness ==
    /\ decodePath = "input"
    /\ decodeImage.exists
    /\ Len(decodeImage.pixels) >= 24
    /\ \A i \in 0..(3 * Len(decodeImage.pixels) - 1) :
          ChannelAt(decodeImage.pixels, i) % 2 = 0
    /\ decodeReturn = NoneValue

\* "HI"
HI == <<72, 73>>

\* n pixels with every channel 0
ZeroPixels(n) == [k \in 1..n |-> <<0, 0, 0>>]

\* the LSBs of the channels at flat positions from..to (0-based)
LsbRange(pixels, from, to) ==
    [i \in 1..(to - from + 1) |-> ChannelAt(pixels, from + i - 1) % 2]

\* 01001000 01001001
HIBits == <<0,1,0,0,1,0,0,0, 0,1,0,0,1,0,0,1>>

\* "|||END|||": | is 01111100, E 01000101, N 01001110, D 01000100
DelimiterBits ==
    <<0,1,1,1,1,1,0,0, 0,1,1,1,1,1,0,0, 0,1,1,1,1,1,0,0,
      0,1,0,0,0,1,0,1, 0,1,0,0,1,1,1,0, 0,1,0,0,0,1,0,0,
      0,1,1,1,1,1,0,0, 0,1,1,1,1,1,0,0, 0,1,1,1,1,1,0,0>>

(* C5 as stated: "HI" is encoded into 10 all-zero pixels (30 channels),    *)
(* the first 16 LSBs of the result are 0100100001001001, and decoding the  *)
(* result returns "HI".                                                    *)
HiScenario ==
    (message = HI /\ input = ZeroPixels(10) /\ encodeReturn # "not_run") =>
        /\ encodeReturn = "True"
        /\ output.exists
        /\ LsbRange(output.pixels, 0, 15) = HIBits
        /\ DecodedOutput => decodeReturn = Text(HI)

(* C5, amended: "HI" is refused as too long for 10 all-zero pixels (88     *)
(* bits against 30 channels, reported maximum 3); encoded into 30 all-zero *)
(* pixels (90 channels) the first 16 LSBs are 0100100001001001, the next   *)
(* 72 are the Delimiter bits, the last two channels stay 0, and decoding   *)
(* the result returns "HI".                                                *)
HiScenarioAmended ==
    (message = HI /\ encodeReturn # "not_run") =>
        /\ input = ZeroPixels(10) =>
              /\ encodeReturn = "False"
              /\ encodePrinted = [kind |-> "too_long", maximum |-> 3]
              /\ ~output.exists
        /\ input = ZeroPixels(30) =>
              /\ encodeReturn = "True"
              /\ output.exists
              /\ Len(output.pixels) = 30
              /\ \A i \in 0..89 : ChannelAt(output.pixels, i) \in {0, 1}
              /\ LsbRange(output.pixels, 0, 15) = HIBits
              /\ LsbRange(output.pixels, 16, 87) = DelimiterBits
              /\ LsbRange(output.pixels, 88, 89) = <<0, 0>>
              /\ DecodedOutput => decodeReturn = Text(HI)

\* "HI" was encoded into 30 all-zero pixels and decoded from the result
HiScenarioWitness ==
    /\ message = HI
    /\ input = ZeroPixels(30)
    /\ DecodedOutput
    /\ decodeReturn = Text(HI)

(* C6: a message with a character whose code point is greater than 255 is  *)
(* refused by encode, and no output is produced.                           *)
RejectsWideCharacters ==
    (encodeReturn # "not_run" /\ ~SingleByte(message)) =>
        /\ encodeReturn = "False"
        /\ ~output.exists

(* C7: when encode refuses a message as too long, the number it reports is *)
(* (3 * len(pixels)) div 8, and a message of that many single-byte         *)
(* characters is not too long for the same pixels.                         *)
DiagnosticIsUsable ==
    encodePrinted.kind = "too_long" =>
        /\ encodePrinted.maximum = (3 * Len(input)) \div 8
        /\ LET usable == [k \in 1..encodePrinted.maximum |-> 65]
           IN  ~TooLong(BinaryMessage(usable \o Delimiter), input)

(* C8: failure atomicity.  An encode that fails as too long leaves no      *)
(* output, not even a partly written one; an output exists only after a    *)
(* successful encode, and then it carries the whole Bitstream of the       *)
(* message and the Delimiter.                                              *)
FailureAtomicity ==
    /\ encodeReturn = "False" =>
          /\ encodePrinted.kind = "too_long"
          /\ ~output.exists
    /\ output.exists =>
          /\ encodeReturn = "True"
          /\ encodePrinted.bits <= 3 * Len(output.pixels)
          /\ SingleByte(message) =>
                /\ encodePrinted.bits = 8 * (Len(message) + 9)
                /\ \A i \in 0..(8 * (Len(message) + 9) - 1) :
                      ChannelAt(output.pixels, i) % 2
                          = StreamBit(message \o Delimiter, i)

\* an encode of a non-empty carrier failed and left no output
FailureAtomicityWitness ==
    /\ encodeReturn = "False"
    /\ Len(input) >= 24
    /\ ~output.exists

(* C9: bit placement and frame.  After a successful encode of a message of *)
(* single-byte characters, with n = 8 * (len(M) + 9): for every i < n the  *)
(* LSB of channel i mod 3 of output pixel i div 3 is bit i of the          *)
(* Bitstream (MSB first) and its higher bits are those of the input        *)
(* channel; every channel at a position i >= n is the input                *)
(* channel; the output has as many pixels as the input.                    *)
BitPlacementAndFrame ==
    (encodeReturn = "True" /\ SingleByte(message)) =>
        LET n == 8 * (Len(message) + 9)
        IN  /\ Len(output.pixels) = Len(input)
            /\ n <= 3 * Len(input)
            /\ \A i \in 0..(n - 1) :
                  /\ ChannelAt(output.pixels, i) % 2
                        = StreamBit(message \o Delimiter, i)
                  /\ ChannelAt(output.pixels, i) \div 2
                        = ChannelAt(input, i) \div 2
            /\ \A i \in n..(3 * Len(input) - 1) :
                  ChannelAt(output.pixels, i) = ChannelAt(input, i)

\* an encode that left whole pixels, with odd channels, after the Bitstream
BitPlacementAndFrameWitness ==
    /\ encodeReturn = "True"
    /\ SingleByte(message)
    /\ message # <<>>
    /\ 8 * (Len(message) + 9) + 6 <= 3 * Len(input)
    /\ ChannelAt(output.pixels, 3 * Len(input) - 2) % 2 = 1

\* the least element of a non-empty set of integers
Least(S) == CHOOSE x \in S : \A y \in S : x <= y

(* C10: first match wins.  When some 8-bit-aligned prefix of the LSB       *)
(* stream ends with the Delimiter, decode returns the units before the     *)
(* Delimiter of the shortest such prefix, unaltered; so decoding the       *)
(* encoding of a message returns the text before the earliest occurrence   *)
(* of the Delimiter in message + Delimiter.                                *)
FirstMatchWins ==
    /\ ( /\ decodePath # "none"
         /\ decodeImage.exists
         /\ MatchPositions(decodeImage.pixels) # {} ) =>
            LET k == Least(MatchPositions(decodeImage.pixels))
            IN  decodeReturn =
                  Text([j \in 1..(k - 9) |-> UnitAt(decodeImage.pixels, j)])
    /\ (DecodedOutput /\ SingleByte(message)) =>
            LET framed == message \o Delimiter
                p == Least({q \in 1..(Len(message) + 1) :
                              OccursAt(framed, Delimiter, q)})
            IN  decodeReturn = Text(SubSeq(framed, 1, p - 1))

\* a decode of the encoding of A + Delimiter + B, A and B not empty,
\* returned A
FirstMatchWinsWitness ==
    /\ DecodedOutput
    /\ SingleByte(message)
    /\ \E p \in 2..(Len(message) - 9) :
          /\ OccursAt(message, Delimiter, p)
          /\ decodeReturn = Text(SubSeq(message, 1, p - 1))

====
